---- MODULE Spec2Model ----
(***************************************************************************)
(* A model of src/uscis_monitor.py: the USCISMonitor poll / diff / notify  *)
(* cycle (check_cases), the change detection it relies on                  *)
(* (filter_relevant_data, calculate_hash, detect_changes) and the run loop *)
(* (run_once, run_continuously, main).                                     *)
(*                                                                         *)
(* Python dictionaries are modelled as TLA+ functions with string domains  *)
(* (records), Python lists as sequences.  d.get(k, default) is Get below.  *)
(***************************************************************************)
EXTENDS Integers, Sequences, FiniteSets, TLC

VARIABLES
    config,           \* self.config['cases']: the configured cases, in order
    mode,             \* "once" (--once) or "forever" (run_continuously)
    pc,               \* where the process is: idle, cases, save, done, stopped, crashed
    idx,              \* position of the for-loop of check_cases in config
    previous_states,  \* self.previous_states
    current_states,   \* the local current_states of check_cases
    state_file,       \* the content of self.state_file on disk
    now,              \* the clock: the number of datetime.now() calls made so far
    log,              \* what the current (or last) cycle did, one entry per case processed
    outcome,          \* the cycle: none, running, completed, error, interrupted
    beforeFailure     \* history: per case, the record of the cycle before a failed one

vars == <<config, mode, pc, idx, previous_states, current_states, state_file,
          now, log, outcome, beforeFailure>>

-----------------------------------------------------------------------------
(* Bounds of the model.                                                    *)

\* longest data.events sequence the service returns
MaxEvents == 3
\* longest data.evidenceRequests / data.notices sequence the service returns
MaxItems == 1
\* number of datetime.now() calls (successful fetches) a behaviour may make
MaxTime == 3

-----------------------------------------------------------------------------
(* Python values.                                                          *)

\* None where a dictionary or a hash is expected (get_case_data, .get('hash'))
None == [py |-> "None"]
\* None where a string is expected (.get('updatedAt')); str(None) in an f-string
NoneText == "None"
\* the empty dictionary {}
EmptyDict == <<>>

\* d.get(k, default)
Get(d, k, default) == IF k \in DOMAIN d THEN d[k] ELSE default

\* d.pop(k, None) on a copy: d without key k
Pop(d, k) == [x \in (DOMAIN d) \ {k} |-> d[x]]

\* d[k] = v on a dictionary
Put(d, k, v) == (k :> v) @@ d

\* Python truthiness of what get_case_data returns ("if not current_data")
Truthy(v) == v # None /\ DOMAIN v # {}

-----------------------------------------------------------------------------
(* The records the case-status service may return (the environment).       *)

EventCodes == <<"E1", "E2", "E3", "E4", "E5">>
EventDates == <<"2024-01-05", "2024-02-06", "2024-03-07", "2024-04-08", "2024-05-09">>

\* A record is described by: updatedAt (or "absent": no such key), the number of
\* events, evidence requests and notices, an unmonitored field (formType) and a
\* stamp t for the volatile timestamps: t = 2 changes the data-level
\* updatedAtTimestamp, t = 3 the updatedAtTimestamp inside every event.
Base == [u |-> "U1", n |-> 1, q |-> 1, m |-> 1, f |-> "F1", t |-> 1]

ParamSpace ==
    [u : {"U1", "U2", "absent"}, n : 0..MaxEvents, q : 0..MaxItems,
     m : 0..MaxItems, f : {"F1", "F2"}, t : {1, 2, 3}]

Deviations(p) == Cardinality({k \in DOMAIN Base : p[k] # Base[k]})

Event(k, t) ==
    [eventCode |-> EventCodes[k], eventDateTime |-> EventDates[k],
     createdAtTimestamp |-> 1, updatedAtTimestamp |-> IF t = 3 THEN 2 ELSE 1]

Item(k) == [id |-> k]

DataObject(p) ==
    LET core == [updatedAtTimestamp |-> IF p.t = 2 THEN 2 ELSE 1,
                 createdAtTimestamp |-> 1,
                 formType |-> p.f,
                 events |-> [k \in 1..p.n |-> Event(k, p.t)],
                 evidenceRequests |-> [k \in 1..p.q |-> Item(k)],
                 notices |-> [k \in 1..p.m |-> Item(k)]]
    IN  IF p.u = "absent" THEN core ELSE Put(core, "updatedAt", p.u)

MkRecord(p) == [data |-> DataObject(p)]

\* a response whose data object has no events, evidenceRequests, notices, updatedAt
SparseRecord == [data |-> [formType |-> "F1", updatedAtTimestamp |-> 1]]

\* a malformed response: no top-level data key
MalformedRecord == [error |-> "not found"]

\* Receipt "A" has a long history: Base and every record that differs from it in
\* one of its six parameters (two records of the family differ in up to two).
LongHistory ==
    {MkRecord(p) : p \in {x \in ParamSpace : Deviations(x) <= 1}}
        \cup {SparseRecord, MalformedRecord}

\* Receipts "B" and "C" have a short one.
ShortHistory == {MkRecord(Base), MkRecord([Base EXCEPT !.u = "U2"]), MalformedRecord}

RecordsOf(rn) == IF rn = "A" THEN LongHistory ELSE ShortHistory

\* get_case_data: None on a RequestException, otherwise response.json()
FetchOutcomes(rn) == {None, EmptyDict} \cup RecordsOf(rn)

AllOutcomes == {None, EmptyDict} \cup LongHistory \cup ShortHistory

\* the configurations explored: one case with a long history, or two cases
Configs ==
    { << [receipt_number |-> "A", description |-> "I-485 Application"] >>,
      << [receipt_number |-> "B", description |-> "I-765 Application"],
         [receipt_number |-> "C"] >> }

Modes == {"once", "forever"}

Receipts(cfg) == {cfg[k].receipt_number : k \in DOMAIN cfg}

-----------------------------------------------------------------------------
(* Normalizer and fingerprint.                                             *)

VolatileFields == {"updatedAtTimestamp", "createdAtTimestamp"}

\* FilterEvent as it would be without the comprehension's filter
FilterEventKeepsStamps(event) == event

\* {k: v for k, v in event.items() if k not in [...]}
FilterEvent(event) == [k \in (DOMAIN event) \ VolatileFields |-> event[k]]

\* the "if 'events' in case_data" block
FilterEvents(case_data) ==
    IF "events" \in DOMAIN case_data
    THEN [case_data EXCEPT
            !.events = [k \in DOMAIN case_data.events |-> FilterEvent(case_data.events[k])]]
    ELSE case_data

\* PopVolatile as it would be if the loop stopped at the first field it removed
PopVolatileFirstFound(case_data) ==
    IF "updatedAtTimestamp" \in DOMAIN case_data
    THEN Pop(case_data, "updatedAtTimestamp")
    ELSE Pop(case_data, "createdAtTimestamp")

\* the loop "for field in fields_to_remove: case_data.pop(field, None)"
PopVolatile(case_data) == Pop(Pop(case_data, "updatedAtTimestamp"), "createdAtTimestamp")

filter_relevant_data(data) ==
    IF "data" \notin DOMAIN data
    THEN data
    ELSE [data |-> FilterEvents(PopVolatile(data.data))]

\* json.dumps(x, sort_keys=True): the text of x with the keys of every object in
\* sorted order.  A function has no key order, so the text is determined by, and
\* determines, the value it serialises.
JsonDumps(x) == [json |-> x]

\* hashlib.md5(...).hexdigest(), modelled as injective (no collisions)
Md5(text) == [md5 |-> text]

calculate_hash(data) == Md5(JsonDumps(filter_relevant_data(data)))

-----------------------------------------------------------------------------
(* Differ.  A change descriptor is a record: kind names the f-string.      *)

InitialSetup == [kind |-> "Initial monitoring setup"]
CaseUpdated(v) == [kind |-> "Case updated: ", value |-> v]
EventsAdded(k) == [kind |-> " new event(s) added", count |-> k]
NewEvent(code, date) == [kind |-> "New event: ", code |-> code, date |-> date]
NewEvidence == [kind |-> "New evidence request received"]
NewNotice == [kind |-> "New notice received"]

\* prev_data of detect_changes: the 'data' entry of the stored snapshot
PrevData(states, receipt_number) == states[receipt_number].data

\* current_data['data'] raises KeyError when the record has no data key
DetectChangesRaises(states, receipt_number, current_data) ==
    /\ receipt_number \in DOMAIN states
    /\ "data" \notin DOMAIN current_data

\* the comparison of detect_changes with the stored snapshot (lines 176-211)
CompareWithPrevious(states, receipt_number, current_data) ==
      LET prev_data == PrevData(states, receipt_number)
          curr_data == current_data.data
          prev_events == Get(prev_data, "events", << >>)
          curr_events == Get(curr_data, "events", << >>)
          new_events == Len(curr_events) - Len(prev_events)
          prev_evidence == Len(Get(prev_data, "evidenceRequests", << >>))
          curr_evidence == Len(Get(curr_data, "evidenceRequests", << >>))
          prev_notices == Len(Get(prev_data, "notices", << >>))
          curr_notices == Len(Get(curr_data, "notices", << >>))
          updated ==
              IF Get(prev_data, "updatedAt", NoneText) # Get(curr_data, "updatedAt", NoneText)
              THEN << CaseUpdated(Get(curr_data, "updatedAt", NoneText)) >>
              ELSE << >>
          events ==
              IF Len(curr_events) > Len(prev_events)
              THEN << EventsAdded(new_events) >> \o
                   [k \in 1..new_events |->
                      NewEvent(Get(curr_events[k], "eventCode", "Unknown"),
                               Get(curr_events[k], "eventDateTime", "Unknown date"))]
              ELSE << >>
          evidence == IF curr_evidence > prev_evidence THEN << NewEvidence >> ELSE << >>
          notices == IF curr_notices > prev_notices THEN << NewNotice >> ELSE << >>
      IN  updated \o events \o evidence \o notices

\* detect_changes as it would be if the first observation appended nothing
detect_changes_silent_first(states, receipt_number, current_data) ==
    IF receipt_number \notin DOMAIN states
    THEN << >>
    ELSE CompareWithPrevious(states, receipt_number, current_data)

detect_changes(states, receipt_number, current_data) ==
    IF receipt_number \notin DOMAIN states
    THEN << InitialSetup >>
    ELSE CompareWithPrevious(states, receipt_number, current_data)

-----------------------------------------------------------------------------
(* Snapshot store.                                                         *)

\* json.dump(states, f, indent=2, default=str): every value of states came from
\* response.json() or is a string, so the file holds states itself
JsonDump(states) == [kind |-> "json", content |-> states]

NoFile == [kind |-> "missing"]
\* a truncated or partly written file: json.load raises JSONDecodeError
CorruptFile == [kind |-> "corrupt"]

\* load_previous_states as it would be if the file were never read
load_previous_states_cold(file) == EmptyDict

load_previous_states(file) == IF file.kind = "json" THEN file.content ELSE EmptyDict

\* the dictionary check_cases stores for a case
Snapshot(current_hash, current_data, last_checked, description) ==
    [hash |-> current_hash, data |-> current_data,
     last_checked |-> last_checked, description |-> description]

\* self.previous_states.get(receipt_number, {}).get('hash')
PreviousHash(states, receipt_number) ==
    Get(Get(states, receipt_number, EmptyDict), "hash", None)

\* case.get('description', receipt_number)
Description(case) == Get(case, "description", case.receipt_number)

\* HashChanged as it would be if the differ ran on every fetch
HashChangedAlways(current_hash, previous_hash) == TRUE

\* "if current_hash != previous_hash"
HashChanged(current_hash, previous_hash) == current_hash # previous_hash

\* the title of the notification, f"USCIS Case Update: {description}"
Title(description) == [prefix |-> "USCIS Case Update: ", description |-> description]

-----------------------------------------------------------------------------
(* One entry of log per case processed in the cycle.                       *)

\* notification: "none" (send_notification not called), "sent" or "failed"
LogEntry(rn, response, diffed, changes, notification, title) ==
    [receipt |-> rn, response |-> response, diffed |-> diffed, changes |-> changes,
     notification |-> notification, title |-> title]

NoHistory(cfg) == [rn \in Receipts(cfg) |-> None]

-----------------------------------------------------------------------------
(* The process.                                                            *)

Init ==
    /\ config \in Configs
    /\ mode \in Modes
    /\ pc = "idle"
    /\ idx = 0
    /\ state_file = NoFile
    /\ previous_states = load_previous_states(NoFile)
    /\ current_states = EmptyDict
    /\ now = 0
    /\ log = << >>
    /\ outcome = "none"
    /\ beforeFailure = NoHistory(config)

\* StartCycle as it would be if check_cases started from the previous snapshots
StartCycleKeepsSnapshots ==
    /\ pc = "idle"
    /\ pc' = IF Len(config) = 0 THEN "save" ELSE "cases"
    /\ idx' = 1
    /\ current_states' = previous_states
    /\ log' = << >>
    /\ outcome' = "running"
    /\ UNCHANGED <<config, mode, previous_states, state_file, now, beforeFailure>>

\* run_once is entered (first iteration, or time.sleep returned): check_cases
\* starts with an empty current_states
StartCycle ==
    /\ pc = "idle"
    /\ pc' = IF Len(config) = 0 THEN "save" ELSE "cases"
    /\ idx' = 1
    /\ current_states' = EmptyDict
    /\ log' = << >>
    /\ outcome' = "running"
    /\ UNCHANGED <<config, mode, previous_states, state_file, now, beforeFailure>>

\* AfterException as it would be without the "except Exception" of run_continuously
AfterExceptionUncaught == "crashed"

\* where an exception that leaves check_cases takes the process: run_continuously
\* catches it and sleeps, run_once lets it end the process
AfterException == IF mode = "forever" THEN "idle" ELSE "crashed"

\* NotifyRaises as it would be without the try/except of send_notification
NotifyRaisesOnFailure(delivery) == delivery = "failed"

\* send_notification catches the RequestException of a failed delivery and logs
\* it: nothing is raised to check_cases
NotifyRaises(delivery) == FALSE

\* AfterFailedFetch as it would be if a failed fetch were tried again
AfterFailedFetchRetries(i) == i

\* "continue" after a failed fetch: the for-loop goes to the next case
AfterFailedFetch(i) == i + 1

\* One iteration of the for-loop of check_cases, for config[idx]: the fetch returned
\* current_data, and a notification, if one is attempted, ends as delivery
\* ("sent" or "failed").
ProcessCase(current_data, delivery) ==
    /\ pc = "cases"
    /\ idx <= Len(config)
    /\ LET case == config[idx]
           receipt_number == case.receipt_number
           description == Description(case)
           next_pc == IF idx = Len(config) THEN "save" ELSE "cases"
       IN
       /\ current_data \in FetchOutcomes(receipt_number)
       /\ IF ~Truthy(current_data)
          THEN \* "Failed to fetch data": continue
               /\ log' = Append(log, LogEntry(receipt_number, current_data, FALSE,
                                              << >>, "none", None))
               /\ idx' = AfterFailedFetch(idx)
               /\ pc' = IF idx' > Len(config) THEN "save" ELSE "cases"
               /\ UNCHANGED <<current_states, now, outcome, beforeFailure>>
          ELSE
            LET current_hash == calculate_hash(current_data)
                previous_hash == PreviousHash(previous_states, receipt_number)
                stored == Put(current_states, receipt_number,
                              Snapshot(current_hash, current_data, now + 1, description))
                changed == HashChanged(current_hash, previous_hash)
            IN
            /\ now < MaxTime
            /\ now' = now + 1
            /\ IF changed /\ DetectChangesRaises(previous_states, receipt_number, current_data)
               THEN \* KeyError leaves check_cases: current_states is lost
                    /\ log' = Append(log, LogEntry(receipt_number, current_data, TRUE,
                                                   << >>, "none", None))
                    /\ pc' = AfterException
                    /\ outcome' = "error"
                    /\ beforeFailure' = NoHistory(config)
                    /\ current_states' = stored
                    /\ UNCHANGED idx
               ELSE
                 LET changes == IF changed
                                THEN detect_changes(previous_states, receipt_number, current_data)
                                ELSE << >>
                     notify == changed /\ changes # << >>
                 IN
                 /\ current_states' = stored
                 /\ log' = Append(log, LogEntry(receipt_number, current_data, changed, changes,
                                                IF notify THEN delivery ELSE "none",
                                                IF notify THEN Title(description) ELSE None))
                 /\ IF notify /\ NotifyRaises(delivery)
                    THEN /\ pc' = AfterException
                         /\ outcome' = "error"
                         /\ beforeFailure' = NoHistory(config)
                         /\ UNCHANGED idx
                    ELSE /\ pc' = next_pc
                         /\ idx' = idx + 1
                         /\ UNCHANGED <<outcome, beforeFailure>>
    /\ UNCHANGED <<config, mode, previous_states, state_file>>

\* the history a completed cycle leaves: for a case whose fetch failed in it, the
\* record the cycle before had stored
HistoryAfter(states, new_states) ==
    [rn \in Receipts(config) |->
        IF rn \notin DOMAIN new_states /\ rn \in DOMAIN states
        THEN states[rn].data ELSE None]

\* the end of check_cases: save_states(current_states), then
\* self.previous_states = current_states; run_once returns
SaveStates ==
    /\ pc = "save"
    /\ state_file' = JsonDump(current_states)
    /\ previous_states' = current_states
    /\ pc' = IF mode = "forever" THEN "idle" ELSE "done"
    /\ outcome' = "completed"
    /\ beforeFailure' = HistoryAfter(previous_states, current_states)
    /\ UNCHANGED <<config, mode, idx, current_states, now, log>>

\* what an interrupt leaves on disk: one that arrives inside save_states, after
\* open(..., 'w') truncated the file, leaves a partly written file
FileAfterInterrupt ==
    IF pc = "save" THEN {state_file, CorruptFile, JsonDump(current_states)} ELSE {state_file}

\* KeyboardInterrupt (SIGINT): raised wherever the main thread is, in run_once or
\* in time.sleep; run_continuously breaks, main returns
Interrupt ==
    /\ pc \in {"idle", "cases", "save"}
    /\ pc' = "stopped"
    /\ outcome' = IF pc = "idle" THEN outcome ELSE "interrupted"
    /\ state_file' \in FileAfterInterrupt
    /\ beforeFailure' = IF pc = "idle" THEN beforeFailure ELSE NoHistory(config)
    /\ UNCHANGED <<config, mode, idx, previous_states, current_states, now, log>>

\* the process is started again: __init__ loads the snapshot store
Restart ==
    /\ pc \in {"done", "stopped", "crashed"}
    /\ mode' \in Modes
    /\ pc' = "idle"
    /\ idx' = 0
    /\ previous_states' = load_previous_states(state_file)
    /\ current_states' = EmptyDict
    /\ log' = << >>
    /\ outcome' = "none"
    /\ beforeFailure' = NoHistory(config)
    /\ UNCHANGED <<config, state_file, now>>

Next ==
    \/ StartCycle
    \/ \E current_data \in AllOutcomes,
          delivery \in {"sent", "failed"} : ProcessCase(current_data, delivery)
    \/ SaveStates
    \/ Interrupt
    \/ Restart

Spec == Init /\ [][Next]_vars

\* The process when no interrupt arrives.  The main thread is the only thread and
\* every call it blocks in is bounded (requests timeouts of 30 s and 10 s,
\* time.sleep of the check interval), so a step that is possible is taken.
NextUninterrupted ==
    \/ StartCycle
    \/ \E current_data \in AllOutcomes,
          delivery \in {"sent", "failed"} : ProcessCase(current_data, delivery)
    \/ SaveStates
    \/ Restart

Fairness ==
    /\ WF_vars(StartCycle)
    /\ WF_vars(\E current_data \in AllOutcomes,
                  delivery \in {"sent", "failed"} : ProcessCase(current_data, delivery))
    /\ WF_vars(SaveStates)

SpecUninterrupted == Init /\ [][NextUninterrupted]_vars /\ Fairness

-----------------------------------------------------------------------------
(* Vocabulary of the properties.                                           *)

\* the process is inside check_cases: previous_states is still the snapshot set
\* of the last completed cycle
InCycle == pc \in {"cases", "save"}

\* check_cases has just returned normally
CycleCompleted == outcome = "completed" /\ pc \in {"idle", "done"}

\* the fetch of a case gave a record (not None, not an empty body)
FetchSucceeded(response) == response # None /\ response # EmptyDict

\* the entries of log whose fetch gave a record
Fetched == {k \in DOMAIN log : FetchSucceeded(log[k].response)}

\* the entries of log whose case has a previous snapshot
WithPrevious == {k \in Fetched : log[k].receipt \in DOMAIN previous_states}

Timestamps == {"updatedAtTimestamp", "createdAtTimestamp"}

SameEventExceptVolatile(e1, e2) ==
    /\ (DOMAIN e1) \ Timestamps = (DOMAIN e2) \ Timestamps
    /\ \A k \in (DOMAIN e1) \ Timestamps : e1[k] = e2[k]

\* two raw records that differ at most in the timestamps of the data object and
\* of the entries of data.events
SameExceptVolatile(r1, r2) ==
    /\ "data" \in DOMAIN r1
    /\ "data" \in DOMAIN r2
    /\ DOMAIN r1 = DOMAIN r2
    /\ LET d1 == r1.data
           d2 == r2.data
           keys == (DOMAIN d1) \ Timestamps
       IN  /\ keys = (DOMAIN d2) \ Timestamps
           /\ \A k \in keys \ {"events"} : d1[k] = d2[k]
           /\ "events" \in keys =>
                /\ Len(d1.events) = Len(d2.events)
                /\ \A j \in DOMAIN d1.events :
                      SameEventExceptVolatile(d1.events[j], d2.events[j])

-----------------------------------------------------------------------------
(* C1: after every cycle of check_cases that runs to completion, every       *)
(* configured case has been processed, and the keys of the saved snapshot    *)
(* store and of previous_states are exactly the cases whose fetch gave a     *)
(* record in that cycle, each holding that record.                           *)
C1_StoreHoldsExactlyFetchedCases ==
    CycleCompleted =>
        /\ Len(log) = Len(config)
        /\ \A k \in DOMAIN log : log[k].receipt = config[k].receipt_number
        /\ DOMAIN previous_states = {log[k].receipt : k \in Fetched}
        /\ state_file.kind = "json"
        /\ DOMAIN state_file.content = {log[k].receipt : k \in Fetched}
        /\ \A k \in Fetched :
              /\ previous_states[log[k].receipt].data = log[k].response
              /\ state_file.content[log[k].receipt].data = log[k].response

\* a completed cycle of two cases: the first fetch failed, the second did not
C1_Witness ==
    /\ CycleCompleted
    /\ Len(log) = 2
    /\ log[1].response = None
    /\ FetchSucceeded(log[2].response)
    /\ DOMAIN previous_states = {log[2].receipt}

(* C3: in a cycle where the fetch of a case succeeds and the fingerprint of  *)
(* the record equals the one of its previous snapshot, detect_changes is not *)
(* invoked, no notification is sent, and the snapshot is written to the new  *)
(* store with a new last_checked value.                                      *)
C3_UnchangedFingerprintRefreshesSnapshot ==
    InCycle =>
        \A k \in WithPrevious :
            LET rn == log[k].receipt IN
            calculate_hash(log[k].response) = previous_states[rn].hash =>
                /\ ~log[k].diffed
                /\ log[k].notification = "none"
                /\ rn \in DOMAIN current_states
                /\ current_states[rn].data = log[k].response
                /\ current_states[rn].hash = previous_states[rn].hash
                /\ current_states[rn].last_checked > previous_states[rn].last_checked

\* a case fetched again with an unchanged fingerprint, about to be saved
C3_Witness ==
    /\ pc = "save"
    /\ \E k \in WithPrevious :
          /\ calculate_hash(log[k].response) = previous_states[log[k].receipt].hash
          /\ current_states[log[k].receipt].last_checked
                 # previous_states[log[k].receipt].last_checked

(* C4: the fingerprint changes if and only if the canonical record changes:  *)
(* a record that differs from the stored one only in volatile timestamps     *)
(* (data level or inside events) gets the stored fingerprint and the cycle   *)
(* sends no notification; records with different canonical forms get         *)
(* different fingerprints.                                                   *)
C4_FingerprintFollowsCanonicalRecord ==
    InCycle =>
        \A k \in WithPrevious :
            LET rn == log[k].receipt
                prev == previous_states[rn].data
                curr == log[k].response
            IN  /\ SameExceptVolatile(prev, curr) =>
                      /\ current_states[rn].hash = previous_states[rn].hash
                      /\ log[k].notification = "none"
                /\ (filter_relevant_data(prev) = filter_relevant_data(curr))
                      <=> (current_states[rn].hash = previous_states[rn].hash)

\* a record fetched after one that differs from it only in event timestamps
C4_Witness ==
    /\ InCycle
    /\ \E k \in WithPrevious :
          LET prev == previous_states[log[k].receipt].data
              curr == log[k].response
          IN  /\ SameExceptVolatile(prev, curr)
              /\ "events" \in DOMAIN curr.data
              /\ \E j \in DOMAIN curr.data.events : curr.data.events[j] # prev.data.events[j]

-----------------------------------------------------------------------------
(* C2: a case fetched in one cycle, whose fetch failed in the next, and      *)
(* which is fetched in the cycle after that with the same record, gets no    *)
(* notification in that third cycle.                                         *)
C2_FailedFetchTreatedAsUnchanged ==
    InCycle =>
        \A k \in Fetched :
            log[k].response = beforeFailure[log[k].receipt] =>
                log[k].notification = "none"

\* the events of a raw record
RecordEvents(record) ==
    IF "data" \in DOMAIN record THEN Get(record.data, "events", << >>) ELSE << >>

\* the number of entries of data.evidenceRequests or data.notices of a raw record
RecordCount(record, field) ==
    IF "data" \in DOMAIN record THEN Len(Get(record.data, field, << >>)) ELSE 0

\* how many times descriptor d is in a change list
Count(changes, d) == Cardinality({j \in DOMAIN changes : changes[j] = d})

\* the entries of log for which detect_changes ran against a previous snapshot
\* and returned
Compared == {k \in WithPrevious : log[k].diffed /\ "data" \in DOMAIN log[k].response}

(* C5: when the record fetched for a case has the k events of the record of  *)
(* its previous snapshot followed by N >= 1 appended events, the change list *)
(* holds "N new event(s) added" followed by one "New event" descriptor for   *)
(* each of the N appended events.                                            *)
C5_AppendedEventsAreReported ==
    InCycle =>
        \A k \in Compared :
            LET old == RecordEvents(previous_states[log[k].receipt].data)
                new == RecordEvents(log[k].response)
                N == Len(new) - Len(old)
                changes == log[k].changes
            IN  (N >= 1 /\ SubSeq(new, 1, Len(old)) = old) =>
                    \E j \in DOMAIN changes :
                        /\ changes[j] = EventsAdded(N)
                        /\ j + N <= Len(changes)
                        /\ \A e \in 1..N :
                              changes[j + e] = NewEvent(new[Len(old) + e].eventCode,
                                                        new[Len(old) + e].eventDateTime)

(* C6: detect_changes, invoked for a case whose previous snapshot was stored *)
(* by check_cases, returns an empty list when the current record is the      *)
(* record of that snapshot.                                                  *)
C6_IdenticalRecordGivesNoChanges ==
    \A rn \in DOMAIN previous_states :
        "data" \in DOMAIN previous_states[rn].data =>
            detect_changes(previous_states, rn, previous_states[rn].data) = << >>

(* C7: with no previous snapshot for a case, detect_changes returns exactly  *)
(* "Initial monitoring setup" whatever the record holds, and the cycle calls *)
(* send_notification exactly once for the case, with only that descriptor.   *)
C7_FirstObservationGivesOneDescriptor ==
    InCycle =>
        \A k \in Fetched \ WithPrevious :
            /\ log[k].diffed
            /\ log[k].changes = << InitialSetup >>
            /\ log[k].notification \in {"sent", "failed"}
            /\ Cardinality({j \in DOMAIN log : log[j].receipt = log[k].receipt}) = 1

\* a first observation of a record without a data key, and one of a full record
C7_Witness ==
    /\ pc = "save"
    /\ Len(log) = 2
    /\ Fetched = {1, 2}
    /\ WithPrevious = {}
    /\ "data" \notin DOMAIN log[1].response
    /\ "data" \in DOMAIN log[2].response

(* C8: when detect_changes runs against a previous snapshot, "New evidence   *)
(* request received" (and "New notice received") is in the change list once  *)
(* if evidenceRequests (notices) of the fetched record is longer than in the *)
(* record of the previous snapshot, and not at all otherwise.                *)
C8_GenericDescriptorIffLonger ==
    InCycle =>
        \A k \in Compared :
            LET prev == previous_states[log[k].receipt].data
                curr == log[k].response
            IN  /\ Count(log[k].changes, NewEvidence) =
                      IF RecordCount(curr, "evidenceRequests") > RecordCount(prev, "evidenceRequests")
                      THEN 1 ELSE 0
                /\ Count(log[k].changes, NewNotice) =
                      IF RecordCount(curr, "notices") > RecordCount(prev, "notices")
                      THEN 1 ELSE 0

(* C9: a failed notification delivery does not end the cycle: the loop goes  *)
(* on with the next case, the snapshot of the case is in the new store, and  *)
(* it is in the store saved when the cycle completes.                        *)
C9_FailedNotificationIsNotFatal ==
    \A k \in DOMAIN log :
        log[k].notification = "failed" =>
            LET rn == log[k].receipt IN
            /\ k = Len(log) => outcome \in {"running", "completed", "interrupted"}
            /\ outcome = "running" =>
                  /\ pc = IF Len(log) = Len(config) THEN "save" ELSE "cases"
                  /\ idx = Len(log) + 1
                  /\ rn \in DOMAIN current_states
                  /\ current_states[rn].data = log[k].response
            /\ CycleCompleted =>
                  /\ Len(log) = Len(config)
                  /\ state_file.kind = "json"
                  /\ rn \in DOMAIN state_file.content
                  /\ state_file.content[rn].data = log[k].response

\* a completed cycle whose first notification failed and whose second case was
\* fetched and stored
C9_Witness ==
    /\ CycleCompleted
    /\ Len(log) = 2
    /\ log[1].notification = "failed"
    /\ FetchSucceeded(log[2].response)
    /\ DOMAIN state_file.content = {log[1].receipt, log[2].receipt}

(* C10: in run-forever mode, when the loop has stopped because of an         *)
(* interrupt, the last cycle that was started has processed all configured   *)
(* cases and saved its snapshot store.                                       *)
C10_InterruptOnlyBetweenCycles ==
    (pc = "stopped" /\ mode = "forever" /\ outcome # "none") =>
        /\ outcome = "completed"
        /\ Len(log) = Len(config)
        /\ state_file = JsonDump(current_states)

-----------------------------------------------------------------------------
(* C11: in run-forever mode, when no interrupt arrives, an error raised      *)
(* inside a cycle is followed by the start of another cycle, and cycles are  *)
(* started again and again.                                                  *)
C11_ErrorDoesNotStopTheLoop ==
    /\ (mode = "forever" /\ outcome = "error") ~> (outcome = "running" /\ log = << >>)
    /\ [](mode = "forever" => <>(outcome = "running" /\ log = << >>))

\* a cycle of the run loop has ended with an error and the loop is waiting
C11_Witness == mode = "forever" /\ outcome = "error" /\ pc = "idle"

(* C12: while the cases of a cycle are processed neither the saved store nor *)
(* previous_states changes, and a cycle that ends with an error or an        *)
(* interrupt leaves both as they were before it began.                       *)
C12_StoreReplacedOnlyAtEndOfCycle ==
    [][ /\ (pc = "cases" /\ pc' \in {"cases", "save"}) =>
              (state_file' = state_file /\ previous_states' = previous_states)
        /\ (outcome = "running" /\ outcome' \in {"error", "interrupted"}) =>
              (state_file' = state_file /\ previous_states' = previous_states)
      ]_vars

\* the fields detect_changes monitors are the same in both raw records
SameMonitoredFields(r1, r2) ==
    /\ "data" \in DOMAIN r1
    /\ "data" \in DOMAIN r2
    /\ Get(r1.data, "updatedAt", NoneText) = Get(r2.data, "updatedAt", NoneText)
    /\ Len(RecordEvents(r1)) = Len(RecordEvents(r2))
    /\ RecordCount(r1, "evidenceRequests") = RecordCount(r2, "evidenceRequests")
    /\ RecordCount(r1, "notices") = RecordCount(r2, "notices")

(* C13: when the fetched record differs from the record of the previous      *)
(* snapshot only in unmonitored non-volatile fields, the fingerprint         *)
(* differs, detect_changes returns an empty list, no notification is sent    *)
(* and the new snapshot is stored.                                           *)
C13_UnmonitoredChangeIsSilent ==
    InCycle =>
        \A k \in WithPrevious :
            LET rn == log[k].receipt
                prev == previous_states[rn].data
                curr == log[k].response
            IN  (SameMonitoredFields(prev, curr)
                   /\ filter_relevant_data(prev) # filter_relevant_data(curr)) =>
                    /\ current_states[rn].hash # previous_states[rn].hash
                    /\ log[k].diffed
                    /\ log[k].changes = << >>
                    /\ log[k].notification = "none"
                    /\ current_states[rn].data = curr

\* the descriptors of a change list that are about events
EventDescriptors(changes) ==
    {j \in DOMAIN changes : changes[j].kind \in {" new event(s) added", "New event: "}}

(* C14: when detect_changes runs against a previous snapshot and the events  *)
(* of the fetched record are longer by N than those of the stored record,    *)
(* the list holds "N new event(s) added" followed by exactly N event         *)
(* descriptors built from the first N current events; if not longer, the     *)
(* list holds no event descriptor.                                           *)
C14_EventDescriptorsMatchGrowth ==
    InCycle =>
        \A k \in Compared :
            LET old == RecordEvents(previous_states[log[k].receipt].data)
                new == RecordEvents(log[k].response)
                N == Len(new) - Len(old)
                changes == log[k].changes
            IN  IF N > 0
                THEN /\ Cardinality(EventDescriptors(changes)) = N + 1
                     /\ \E j \in DOMAIN changes :
                           /\ changes[j] = EventsAdded(N)
                           /\ j + N <= Len(changes)
                           /\ \A e \in 1..N :
                                 changes[j + e] = NewEvent(new[e].eventCode, new[e].eventDateTime)
                ELSE EventDescriptors(changes) = {}

(* C15: when detect_changes runs against a previous snapshot, "Case          *)
(* updated: <value>" is in the change list if and only if updatedAt of the   *)
(* fetched record differs from updatedAt of the stored record, and then it   *)
(* carries the new value.                                                    *)
C15_CaseUpdatedIffUpdatedAtDiffers ==
    InCycle =>
        \A k \in Compared :
            LET prev == previous_states[log[k].receipt].data
                curr == log[k].response
                old == IF "data" \in DOMAIN prev
                       THEN Get(prev.data, "updatedAt", NoneText) ELSE NoneText
                new == Get(curr.data, "updatedAt", NoneText)
                updates == {j \in DOMAIN log[k].changes :
                               log[k].changes[j].kind = "Case updated: "}
            IN  /\ (updates # {}) <=> (old # new)
                /\ \A j \in updates : log[k].changes[j] = CaseUpdated(new)

\* the number of log entries of the running cycle for a receipt number
Visits(rn) == Cardinality({k \in DOMAIN log : log[k].receipt = rn})

(* C16: within a cycle the cases are processed in configuration order with   *)
(* no retry: the k-th step of the cycle is the one fetch of the k-th         *)
(* configured case, and at most one notification is attempted for it,        *)
(* whether fetch and notification succeed or fail.                           *)
C16_OneFetchPerCaseInOrder ==
    /\ Len(log) <= Len(config)
    /\ \A k \in DOMAIN log : log[k].receipt = config[k].receipt_number
    /\ \A k \in DOMAIN config : Visits(config[k].receipt_number) <= 1
    /\ pc = "cases" => idx = Len(log) + 1
    /\ CycleCompleted => Len(log) = Len(config)

\* a completed cycle over two cases: the fetch of the first failed and a
\* notification was attempted for the second
C16_Witness ==
    /\ CycleCompleted
    /\ Len(config) = 2
    /\ ~FetchSucceeded(log[1].response)
    /\ log[2].notification \in {"sent", "failed"}

(* C17: a shorter events, evidenceRequests or notices sequence in the        *)
(* fetched record than in the stored record never produces a descriptor for  *)
(* that sequence.                                                            *)
C17_ShrinkingSequenceIsSilent ==
    InCycle =>
        \A k \in Compared :
            LET prev == previous_states[log[k].receipt].data
                curr == log[k].response
                changes == log[k].changes
            IN  /\ Len(RecordEvents(curr)) < Len(RecordEvents(prev)) =>
                       EventDescriptors(changes) = {}
                /\ RecordCount(curr, "evidenceRequests") < RecordCount(prev, "evidenceRequests") =>
                       Count(changes, NewEvidence) = 0
                /\ RecordCount(curr, "notices") < RecordCount(prev, "notices") =>
                       Count(changes, NewNotice) = 0

(* C18: filter_relevant_data is idempotent on every raw record, with or      *)
(* without a data key and with or without data.events, and calculate_hash    *)
(* gives a record and its filtered form the same fingerprint.                *)
C18_FilterIsIdempotent ==
    \A k \in Fetched :
        LET x == log[k].response
            filtered == filter_relevant_data(x)
        IN  /\ filter_relevant_data(filtered) = filtered
            /\ calculate_hash(filtered) = calculate_hash(x)
            /\ InCycle => current_states[log[k].receipt].hash = calculate_hash(filtered)

\* the filter has acted on a record with events and changed it, and on a
\* record with no data key
C18_Witness ==
    /\ \E k \in Fetched :
          /\ RecordEvents(log[k].response) # << >>
          /\ filter_relevant_data(log[k].response) # log[k].response
    /\ \E k \in Fetched : "data" \notin DOMAIN log[k].response

(* C19: every cycle that is started processes every configured case and      *)
(* reaches the save of the snapshot store whatever the fetches return; a     *)
(* record with no data key does not abort the cycle.                         *)
C19_EveryCycleReachesSave ==
    (outcome = "running" /\ log = << >>) ~> (outcome = "completed" /\ Len(log) = Len(config))

\* what a new process would load from the snapshot store
StoreContent ==
    IF state_file.kind = "json" THEN state_file.content ELSE EmptyDict

(* C20: at process start and after every completed cycle previous_states     *)
(* equals the content of the saved snapshot store, a missing or corrupt      *)
(* store counting as empty, so a restart between two cycles resumes from     *)
(* the same previous_states.                                                 *)
C20_MemoryEqualsStoreBetweenCycles ==
    (pc \in {"idle", "done"} /\ outcome \in {"none", "completed"}) =>
        previous_states = StoreContent

\* a process restarted after a completed cycle has loaded its snapshots
C20_Witness ==
    /\ pc = "idle"
    /\ outcome = "none"
    /\ previous_states # EmptyDict
    /\ previous_states = StoreContent

====
